---- MODULE Spec2Model ----
(***************************************************************************)
(* Model of telethon_generator/tl_generator.py (TLGenerator) and of the   *)
(* code it generates: __bytes__, from_reader and on_response of every     *)
(* TLObject, the constructor registry and the type definitions.           *)
(* The last section models db/database.py, which stores such objects.     *)
(*                                                                         *)
(* A byte stream is a sequence of bytes 0..255.  A Python value is a      *)
(* tagged tuple: <<"None">>, <<"bool", b>>, <<"int", n>>, <<"big", hi,    *)
(* lo>> (an integer outside 32 bits), <<"list", seq>> and                  *)
(* <<"obj", class, fields>> with one field value per declared argument.   *)
(***************************************************************************)
EXTENDS Integers, Sequences, FiniteSets, TLC

VARIABLES
    pc,         \* position of the run under way
    obj,        \* codec: the instance handed to __bytes__
    out,        \* codec: result of bytes(obj), <<"ok", stream>> or <<"err", kind>>
    dec,        \* codec: result of the decoder, <<"ok", value, rest>> or <<"err", kind>>
    type_,      \* classifier: the type string given to _is_boxed
    boxed,      \* classifier: what _is_boxed returned
    request,    \* response: the function whose on_response runs
    reader,     \* response: the bytes of the response
    response,   \* response: outcome of on_response
    scheme,     \* generator: the parsed tlobjects, in declaration order
    disk,       \* generator: the files of the output directory
    ip,         \* the statement or argument the run under way has reached
    parts,      \* __bytes__: the items of the tuple handed to b''.join so far
    entity,     \* compiler: the tlobject _write_source_code is given
    error,      \* compiler, generator: the exception that ended the run
    db,         \* database: the tables, each with its columns and its rows
    runs        \* generator: the generate_tlobjects calls made so far

vars ==
    <<pc, obj, out, dec, type_, boxed, request, reader, response, scheme, disk,
      ip, parts, entity, error, db, runs>>

(***************************************************************************)
(* Bounds                                                                  *)
(***************************************************************************)
MaxInt == 1      \* integer field values range over -MaxInt..MaxInt
MaxLen == 2      \* longest vector value
MaxObjects == 3  \* most tlobjects in a scheme handed to the generator
MaxType == 6     \* longest type string given to _is_boxed

IntVals == (0 - MaxInt)..MaxInt

None == <<"None">>
PyBool(b) == <<"bool", b>>
PyInt(n) == <<"int", n>>
PyList(s) == <<"list", s>>
PyObj(cls, fields) == <<"obj", cls, fields>>

Ok(v, rest) == <<"ok", v, rest>>
Err(kind) == <<"err", kind>>
IsOk(r) == r[1] = "ok"

(***************************************************************************)
(* struct.pack / BinaryReader primitives, byte by byte (little endian)    *)
(***************************************************************************)
RECURSIVE to_bytes_le(_, _)
\* n.to_bytes(k, 'little', signed=True): two's complement, k bytes
to_bytes_le(n, k) ==
    IF k = 0 THEN <<>> ELSE <<n % 256>> \o to_bytes_le(n \div 256, k - 1)

SByte(b) == IF b >= 128 THEN b - 256 ELSE b

\* int.from_bytes(s[1..4], 'little', signed=True)
from_bytes_le4(s) == s[1] + 256 * s[2] + 65536 * s[3] + 16777216 * SByte(s[4])

\* reader.read_int(): 4 bytes, signed
read_int(s) ==
    IF Len(s) < 4 THEN Err("eof")
    ELSE Ok(PyInt(from_bytes_le4(s)), SubSeq(s, 5, Len(s)))

\* reader.read_long(): 8 bytes, signed; a value that does not fit 32 bits is
\* kept as its two signed halves
read_long(s) ==
    IF Len(s) < 8 THEN Err("eof")
    ELSE LET lo == from_bytes_le4(SubSeq(s, 1, 4))
             hi == from_bytes_le4(SubSeq(s, 5, 8))
             v  == IF (hi = 0 /\ lo >= 0) \/ (hi = 0 - 1 /\ lo < 0)
                   THEN PyInt(lo) ELSE <<"big", hi, lo>>
         IN  Ok(v, SubSeq(s, 9, Len(s)))

VECTOR_ID == <<21, 196, 181, 28>>     \* b'\x15\xc4\xb5\x1c'
BOOL_TRUE == <<181, 117, 114, 153>>   \* b'\xb5ur\x99'
BOOL_FALSE == <<55, 151, 121, 188>>   \* b'7\x97y\xbc'

\* reader.tgread_bool()
tgread_bool(s) ==
    IF Len(s) < 4 THEN Err("eof")
    ELSE LET w == SubSeq(s, 1, 4)
         IN  IF w = BOOL_TRUE THEN Ok(PyBool(TRUE), SubSeq(s, 5, Len(s)))
             ELSE IF w = BOOL_FALSE THEN Ok(PyBool(FALSE), SubSeq(s, 5, Len(s)))
             ELSE Err("bad_bool")

(***************************************************************************)
(* The parsed scheme of the codec runs                                     *)
(***************************************************************************)
TLArg(name, type) ==
    [name |-> name, type |-> type, is_vector |-> FALSE, use_vector_id |-> FALSE,
     is_flag |-> FALSE, flag_index |-> 0 - 1, flag_indicator |-> FALSE,
     generic_definition |-> FALSE, can_be_inferred |-> FALSE,
     skip_constructor_id |-> FALSE]

FlagArg(name, type, index) ==
    [TLArg(name, type) EXCEPT !.is_flag = TRUE, !.flag_index = index]

\* an argument the constructor fills in when it is not given (random_id)
InferredArg(name, type) == [TLArg(name, type) EXCEPT !.can_be_inferred = TRUE]

VectorOf(arg, use_id) ==
    [arg EXCEPT !.is_vector = TRUE, !.use_vector_id = use_id]

TLObject(name, id, args, result, is_function) ==
    [name |-> name, namespace |-> "", id |-> id, args |-> args, result |-> result,
     is_function |-> is_function]

FlagIndicator == [TLArg("flags", "#") EXCEPT !.flag_indicator = TRUE]

CodecScheme ==
    << TLObject("peerA", 161, <<TLArg("x", "int")>>, <<"P", "e", "e", "r">>, FALSE),
       TLObject("peerB", 178, <<>>, <<"P", "e", "e", "r">>, FALSE),
       TLObject("ipPort", 195, <<TLArg("ipv4", "int"), TLArg("port", "int")>>,
                <<"I", "p", "P", "o", "r", "t">>, FALSE),
       TLObject("msg", 16,
                << FlagIndicator,
                   FlagArg("a", "true", 0),
                   FlagArg("b", "Bool", 1),
                   FlagArg("c", "true", 2),
                   FlagArg("d", "int", 2) >>,
                <<"M", "s", "g">>, FALSE),
       TLObject("opt", 24,
                << TLArg("n", "int"),
                   FlagIndicator,
                   FlagArg("p", "Peer", 0),
                   VectorOf(FlagArg("v", "int", 3), TRUE) >>,
                <<"O", "p", "t">>, FALSE),
       TLObject("plain", 32,
                << FlagIndicator,
                   TLArg("l", "long"), TLArg("b", "Bool"), TLArg("p", "Peer") >>,
                <<"P", "l", "a", "i", "n">>, FALSE),
       TLObject("holder", 48,
                << [TLArg("q", "ipPort") EXCEPT !.skip_constructor_id = TRUE],
                   TLArg("n", "int") >>,
                <<"H", "o", "l", "d", "e", "r">>, FALSE),
       TLObject("peers", 64, <<VectorOf(TLArg("v", "Peer"), TRUE)>>,
                <<"P", "e", "e", "r", "s">>, FALSE),
       TLObject("ints", 80, <<VectorOf(TLArg("v", "int"), TRUE)>>,
                <<"I", "n", "t", "s">>, FALSE),
       TLObject("raw", 96, <<VectorOf(TLArg("w", "int"), FALSE)>>,
                <<"R", "a", "w">>, FALSE),
       TLObject("send", 112,
                << FlagIndicator,
                   InferredArg("random_id", "long"),
                   FlagArg("s", "int", 0),
                   TLArg("n", "int") >>,
                <<"S", "e", "n", "d">>, FALSE) >>

\* the class generated for the tlobject called name
ClassOf(name) ==
    LET i == CHOOSE j \in 1..Len(CodecScheme) : CodecScheme[j].name = name
    IN  CodecScheme[i]

(***************************************************************************)
(* Python operators the generated code uses                                *)
(***************************************************************************)
\* "x is None or x is False"
IsNoneOrFalse(x) == x = None \/ x = PyBool(FALSE)

\* the truth value of x in "if x" and "x or y"
Truthy(x) ==
    CASE x[1] = "None" -> FALSE
      [] x[1] = "bool" -> x[2]
      [] x[1] = "int"  -> x[2] # 0
      [] x[1] = "list" -> x[2] # <<>>
      [] OTHER         -> TRUE

RECURSIVE Pow2(_)
\* 1 << n
Pow2(n) == IF n = 0 THEN 1 ELSE 2 * Pow2(n - 1)

RECURSIVE BitOr(_, _)
\* a | b on naturals
BitOr(a, b) ==
    IF a = 0 THEN b
    ELSE IF b = 0 THEN a
    ELSE (IF a % 2 = 1 \/ b % 2 = 1 THEN 1 ELSE 0) + 2 * BitOr(a \div 2, b \div 2)

RECURSIVE BitAnd(_, _)
\* a & b on naturals
BitAnd(a, b) ==
    IF a = 0 \/ b = 0 THEN 0
    ELSE (IF a % 2 = 1 /\ b % 2 = 1 THEN 1 ELSE 0) + 2 * BitAnd(a \div 2, b \div 2)

Bytes(b) == <<"ok", b>>

(***************************************************************************)
(* The generated __bytes__                                                 *)
(***************************************************************************)
\* The assertion written for the flag groups: for every flag_index shared by
\* more than one argument,
\*   assert (all (x or x is not None)) or (all (x is None or x is False))
flag_assertion(args, self) ==
    \A k \in {args[i].flag_index : i \in {j \in 1..Len(args) : args[j].is_flag}} :
        LET ra == {i \in 1..Len(args) : args[i].is_flag /\ args[i].flag_index = k}
        IN  Cardinality(ra) > 1 =>
                \/ \A i \in ra : Truthy(self[i]) \/ self[i] # None
                \/ \A i \in ra : IsNoneOrFalse(self[i])

RECURSIVE flags_value_none_only(_, _, _)
\* the flags with only None counted as absent
flags_value_none_only(args, self, i) ==
    IF i > Len(args) THEN 0
    ELSE LET rest == flags_value_none_only(args, self, i + 1)
         IN  IF ~args[i].is_flag THEN rest
             ELSE BitOr(IF self[i] = None THEN 0
                        ELSE Pow2(args[i].flag_index), rest)

RECURSIVE flags_value(_, _, _)
\* ' | '.join('(0 if x is None or x is False else 1 << flag_index)'
\*            for flag in args if flag.is_flag), from argument i on
flags_value(args, self, i) ==
    IF i > Len(args) THEN 0
    ELSE LET rest == flags_value(args, self, i + 1)
         IN  IF ~args[i].is_flag THEN rest
             ELSE BitOr(IF IsNoneOrFalse(self[i]) THEN 0
                        ELSE Pow2(args[i].flag_index), rest)

\* the branch chain of write_to_bytes for a value that is no vector and no flag
\* indicator: what the written expression evaluates to for the value x
write_primitive(arg, x) ==
    CASE arg.type = "int" ->
            IF x[1] = "int" THEN Bytes(to_bytes_le(x[2], 4)) ELSE Err("struct.error")
      [] arg.type = "long" ->
            IF x[1] = "int" THEN Bytes(to_bytes_le(x[2], 8)) ELSE Err("struct.error")
      [] arg.type = "Bool" ->
            Bytes(IF Truthy(x) THEN BOOL_TRUE ELSE BOOL_FALSE)
      [] arg.type = "true" -> Bytes(<<>>)
      [] OTHER -> Err("TypeError")

\* the vector marker (unsigned 0x1cb5c415, little endian) when the vector uses
\* it, then struct.pack('<i', len(x))
vector_header(arg, n) ==
    (IF arg.use_vector_id THEN VECTOR_ID ELSE <<>>) \o to_bytes_le(n, 4)

RECURSIVE write_to_bytes(_, _, _, _), write_elements(_, _, _, _), write_args(_, _, _), to_bytes(_)

\* a custom type written without its constructor id
custom_bytes_bare(x) ==
    IF x[1] = "obj" THEN write_args(ClassOf(x[2]).args, x[3], 1) ELSE Err("TypeError")

\* the last branch of write_to_bytes, a custom type: bytes(x)
custom_bytes(x) ==
    IF x[1] = "obj" THEN to_bytes(x) ELSE Err("TypeError")

\* TLGenerator.write_to_bytes(builder, arg, args, name), evaluated with the
\* instance fields self and the value x of name
write_to_bytes(arg, args, self, x) ==
    IF arg.generic_definition THEN Bytes(<<>>)
    ELSE IF arg.is_flag /\ arg.type = "true" THEN Bytes(<<>>)
    ELSE IF arg.is_flag /\ IsNoneOrFalse(x) THEN Bytes(<<>>)
    ELSE IF arg.is_vector THEN
        IF x[1] # "list" THEN Err("TypeError")
        ELSE LET elems == write_elements(
                              [arg EXCEPT !.is_vector = FALSE, !.is_flag = FALSE],
                              args, self, x[2])
             IN  IF ~IsOk(elems) THEN elems
                 ELSE Bytes(vector_header(arg, Len(x[2])) \o elems[2])
    ELSE IF arg.flag_indicator THEN
        IF ~\E i \in 1..Len(args) : args[i].is_flag
        THEN Bytes(<<0, 0, 0, 0>>)
        ELSE Bytes(to_bytes_le(flags_value(args, self, 1), 4))
    ELSE IF arg.type \in {"int", "long", "Bool", "true"} THEN write_primitive(arg, x)
    ELSE custom_bytes(x)

\* b''.join(<element expression> for x in xs)
write_elements(arg, args, self, xs) ==
    IF xs = <<>> THEN Bytes(<<>>)
    ELSE LET h == write_to_bytes(arg, args, self, Head(xs))
         IN  IF ~IsOk(h) THEN h
             ELSE LET t == write_elements(arg, args, self, Tail(xs))
                  IN  IF ~IsOk(t) THEN t ELSE Bytes(h[2] \o t[2])

\* tlobject.sorted_args(): the positions of the arguments with those that are
\* flags or can be inferred moved behind the others, a stable sort
sorted_args(args) ==
    LET positions == [i \in 1..Len(args) |-> i]
        last(i)   == args[i].is_flag \/ args[i].can_be_inferred
    IN  SelectSeq(positions, LAMBDA i : ~last(i)) \o SelectSeq(positions, last)

\* the tuple items written in the order of sorted_args, from the i-th on
write_args_sorted(args, self, i) ==
    IF i > Len(args) THEN Bytes(<<>>)
    ELSE LET k == sorted_args(args)[i]
             h == write_to_bytes(args[k], args, self, self[k])
         IN  IF ~IsOk(h) THEN h
             ELSE LET t == write_args(args, self, i + 1)
                  IN  IF ~IsOk(t) THEN t ELSE Bytes(h[2] \o t[2])

\* the tuple items written by "for arg in tlobject.args", from argument i on
write_args(args, self, i) ==
    IF i > Len(args) THEN Bytes(<<>>)
    ELSE LET h == write_to_bytes(args[i], args, self, self[i])
         IN  IF ~IsOk(h) THEN h
             ELSE LET t == write_args(args, self, i + 1)
                  IN  IF ~IsOk(t) THEN t ELSE Bytes(h[2] \o t[2])

\* bytes(o): the generated __bytes__ of o's class
to_bytes(o) ==
    LET cls == ClassOf(o[2])
    IN  IF ~flag_assertion(cls.args, o[3]) THEN Err("AssertionError")
        ELSE LET body == write_args(cls.args, o[3], 1)
             IN  IF ~IsOk(body) THEN body
                 ELSE Bytes(to_bytes_le(cls.id, 4) \o body[2])

(***************************************************************************)
(* The generated from_reader and the reader's dispatch                     *)
(***************************************************************************)
\* the dictionary all_tlobjects.py holds: constructor id -> class, written in
\* declaration order, a later entry replacing an earlier one with the same key
tlobjects(tlobjs) ==
    [id \in {tlobjs[i].id : i \in 1..Len(tlobjs)} |->
        LET last == CHOOSE i \in 1..Len(tlobjs) :
                        /\ tlobjs[i].id = id
                        /\ \A j \in 1..Len(tlobjs) : tlobjs[j].id = id => j <= i
        IN  tlobjs[last]]

\* the branch chain of write_read_code for a value that is no vector, no flag
\* indicator and no custom type
read_primitive(arg, s) ==
    CASE arg.type = "int"  -> read_int(s)
      [] arg.type = "long" -> read_long(s)
      [] arg.type = "Bool" -> tgread_bool(s)
      [] arg.type = "true" -> Ok(PyBool(TRUE), s)

RECURSIVE write_read_code(_, _, _), read_elements(_, _, _, _, _), read_args(_, _, _, _, _), from_reader(_, _), tgread_object(_)

\* TLGenerator.write_read_code(builder, arg, args, name), evaluated with the
\* flags read so far on the bytes s that are left
write_read_code(arg, flags, s) ==
    IF arg.generic_definition THEN Ok(None, s)
    ELSE IF arg.is_flag /\ arg.type = "true"
        THEN Ok(PyBool(BitAnd(flags, Pow2(arg.flag_index)) # 0), s)
    ELSE IF arg.is_flag THEN
        IF BitAnd(flags, Pow2(arg.flag_index)) # 0
        THEN write_read_code([arg EXCEPT !.is_flag = FALSE], flags, s)
        ELSE Ok(None, s)
    ELSE IF arg.is_vector THEN
        LET id == IF arg.use_vector_id THEN read_int(s) ELSE Ok(None, s)
        IN  IF ~IsOk(id) THEN id
            ELSE LET count == read_int(id[3])
                 IN  IF ~IsOk(count) THEN count
                     ELSE read_elements([arg EXCEPT !.is_vector = FALSE], flags,
                                        count[2][2], <<>>, count[3])
    ELSE IF arg.flag_indicator THEN read_int(s)
    ELSE IF arg.type \in {"int", "long", "Bool", "true"} THEN read_primitive(arg, s)
    ELSE IF ~arg.skip_constructor_id THEN tgread_object(s)
    ELSE from_reader(ClassOf(arg.type), s)

\* for _ in range(n): <read _x>; name.append(_x)
read_elements(arg, flags, n, acc, s) ==
    IF n <= 0 THEN Ok(PyList(acc), s)
    ELSE LET x == write_read_code(arg, flags, s)
         IN  IF ~IsOk(x) THEN x
             ELSE read_elements(arg, flags, n - 1, Append(acc, x[2]), x[3])

\* the statements of from_reader with nothing read for an argument that can be
\* inferred
read_args_not_inferred(cls, i, flags, vals, s) ==
    IF i > Len(cls.args) THEN Ok(PyObj(cls.name, vals), s)
    ELSE IF cls.args[i].can_be_inferred
        THEN read_args(cls, i + 1, flags, Append(vals, None), s)
    ELSE LET r == write_read_code(cls.args[i], flags, s)
         IN  IF ~IsOk(r) THEN r
             ELSE IF cls.args[i].flag_indicator
                 THEN read_args(cls, i + 1, r[2][2], Append(vals, None), r[3])
                 ELSE read_args(cls, i + 1, flags, Append(vals, r[2]), r[3])

\* the statements written by "for arg in tlobject.args", from argument i on,
\* and the final "return Class(name=_name, ...)"
read_args(cls, i, flags, vals, s) ==
    IF i > Len(cls.args) THEN Ok(PyObj(cls.name, vals), s)
    ELSE LET r == write_read_code(cls.args[i], flags, s)
         IN  IF ~IsOk(r) THEN r
             ELSE IF cls.args[i].flag_indicator
                 THEN read_args(cls, i + 1, r[2][2], Append(vals, None), r[3])
                 ELSE read_args(cls, i + 1, flags, Append(vals, r[2]), r[3])

\* Class.from_reader(reader)
from_reader(cls, s) == read_args(cls, 1, 0, <<>>, s)

\* reader.tgread_object(): the constructor id, then the class registered for it
tgread_object(s) ==
    LET id == read_int(s)
    IN  IF ~IsOk(id) THEN id
        ELSE IF id[2][2] \notin DOMAIN tlobjects(CodecScheme)
            THEN Err("TypeNotFoundError")
            ELSE from_reader(tlobjects(CodecScheme)[id[2][2]], id[3])

(***************************************************************************)
(* The instances the codec runs are given                                  *)
(***************************************************************************)
SeqsUpTo(S, n) == UNION {[1..k -> S] : k \in 0..n}

PeerVals ==
    {PyObj("peerA", <<PyInt(n)>>) : n \in IntVals} \cup {PyObj("peerB", <<>>)}

IpPortVals == {PyObj("ipPort", <<PyInt(a), PyInt(b)>>) : a, b \in IntVals}

\* the values a supplied argument takes
TypeVals(type) ==
    CASE type = "int"    -> {PyInt(n) : n \in IntVals}
      [] type = "long"   -> {PyInt(n) : n \in IntVals}
      [] type = "Bool"   -> {PyBool(TRUE), PyBool(FALSE)}
      [] type = "true"   -> {PyBool(TRUE), PyBool(FALSE)}
      [] type = "Peer"   -> PeerVals
      [] type = "ipPort" -> IpPortVals
      [] OTHER           -> {None}

ArgVals(arg) ==
    LET one  == TypeVals(arg.type)
        vals == IF arg.is_vector THEN {PyList(l) : l \in SeqsUpTo(one, MaxLen)} ELSE one
    IN  IF arg.flag_indicator \/ arg.generic_definition THEN {None}
        ELSE IF arg.is_flag THEN vals \cup {None}
        ELSE vals

RECURSIVE FieldVals(_, _)
FieldVals(args, i) ==
    IF i > Len(args) THEN {<<>>}
    ELSE {<<v>> \o t : v \in ArgVals(args[i]), t \in FieldVals(args, i + 1)}

Instances ==
    UNION {{PyObj(CodecScheme[k].name, f) : f \in FieldVals(CodecScheme[k].args, 1)}
           : k \in 1..Len(CodecScheme)}

(***************************************************************************)
(* Codec runs: an instance is serialized, then read back                   *)
(***************************************************************************)
Idle == <<"idle">>

InitCodec ==
    /\ pc = "built"
    /\ obj \in Instances
    /\ out = Idle
    /\ dec = Idle
    /\ type_ = <<>> /\ boxed = Idle
    /\ request = Idle /\ reader = <<>> /\ response = Idle
    /\ scheme = <<>> /\ disk = Idle
    /\ ip = 0 /\ parts = <<>> /\ entity = Idle /\ error = Idle
    /\ db = Idle /\ runs = 0

\* bytes(obj)
Serialize ==
    /\ pc = "built"
    /\ out' = to_bytes(obj)
    /\ pc' = IF IsOk(to_bytes(obj)) THEN "sent" ELSE "raised"
    /\ UNCHANGED <<obj, dec, type_, boxed, request, reader, response, scheme, disk,
                 ip, parts, entity, error, db, runs>>

\* the bytes sent with the vector marker of the first argument taken out
\* (classes whose first argument is a Vector<int> written with its marker)
StripMarker ==
    /\ pc = "sent"
    /\ LET cls == ClassOf(obj[2])
       IN  /\ Len(cls.args) > 0
           /\ cls.args[1].type = "int"
           /\ cls.args[1].is_vector /\ cls.args[1].use_vector_id /\ ~cls.args[1].is_flag
    /\ out' = Bytes(SubSeq(out[2], 1, 4) \o SubSeq(out[2], 9, Len(out[2])))
    /\ pc' = "stripped"
    /\ UNCHANGED <<obj, dec, type_, boxed, request, reader, response, scheme, disk,
                 ip, parts, entity, error, db, runs>>

\* reader.tgread_object() on the bytes sent
Deserialize ==
    /\ pc \in {"sent", "stripped"}
    /\ dec' = tgread_object(out[2])
    /\ pc' = IF pc = "sent" THEN "read" ELSE "misread"
    /\ UNCHANGED <<obj, out, type_, boxed, request, reader, response, scheme, disk,
                 ip, parts, entity, error, db, runs>>

NextCodec == Serialize \/ StripMarker \/ Deserialize

SpecCodec == InitCodec /\ [][NextCodec]_vars

(***************************************************************************)
(* Properties of the codec                                                 *)
(***************************************************************************)
Cls == ClassOf(obj[2])
Self == obj[3]

\* C1 (as claimed): reading back the bytes of any instance yields an instance
\* whose every field equals the original value.
C1_RoundTrip == pc = "read" => (IsOk(dec) /\ dec[2] = obj)

FlagArgs(args) == {i \in 1..Len(args) : args[i].is_flag}

\* a flag argument is present when its value is neither None nor False
Present(v) == v # None /\ v # PyBool(FALSE)

PresentSet(args, self) == {i \in FlagArgs(args) : Present(self[i])}

\* every group of arguments sharing a flag_index is present or absent as a whole
Consistent(args, self) ==
    \A i, j \in FlagArgs(args) :
        args[i].flag_index = args[j].flag_index
            => (Present(self[i]) <=> Present(self[j]))

RECURSIVE SumPow2(_)
SumPow2(S) ==
    IF S = {} THEN 0
    ELSE LET k == CHOOSE x \in S : TRUE IN Pow2(k) + SumPow2(S \ {k})

\* the bitmask of the present flags: one bit for each flag_index in use
ExpectedMask(args, self) ==
    SumPow2({args[i].flag_index : i \in PresentSet(args, self)})

HasIndicator(args) == \E i \in 1..Len(args) : args[i].flag_indicator

\* where the flags are written: after the constructor id and the 4-byte
\* arguments declared before the indicator
IndicatorOffset(args) ==
    4 * (CHOOSE i \in 1..Len(args) : args[i].flag_indicator)

\* C2: for an instance of a class with a flag indicator whose present flags S
\* respect the flag groups, the 32 bits written at the indicator are the OR of
\* 1 << flag_index over S (zero when S is empty or the class has no flags), and
\* from_reader reports exactly the arguments of S as present.
C2_Bitmask ==
    (pc \in {"sent", "read"} /\ HasIndicator(Cls.args) /\ Consistent(Cls.args, Self))
        => /\ IsOk(out)
           /\ SubSeq(out[2], IndicatorOffset(Cls.args) + 1, IndicatorOffset(Cls.args) + 4)
                = to_bytes_le(ExpectedMask(Cls.args, Self), 4)
           /\ pc = "read" =>
                /\ IsOk(dec)
                /\ \A i \in FlagArgs(Cls.args) :
                      Present(dec[2][3][i]) <=> i \in PresentSet(Cls.args, Self)

C2_Witness ==
    /\ pc = "read" /\ obj[2] = "msg" /\ IsOk(dec)
    /\ Self[3] = PyBool(TRUE) /\ Self[4] = PyBool(TRUE) /\ Self[5] = PyInt(0)
    /\ Self[2] = None

\* C3 (as claimed): when a strict non-empty part of a flag group is present,
\* __bytes__ fails.
C3_CoDependency ==
    (pc \in {"sent", "raised"} /\ ~Consistent(Cls.args, Self))
        => (pc = "raised" /\ out = Err("AssertionError"))

\* the fields of a peer or ipPort instance, all of them ints, one after another
RECURSIVE IntFields(_)
IntFields(fields) ==
    IF fields = <<>> THEN <<>>
    ELSE to_bytes_le(Head(fields)[2], 4) \o IntFields(Tail(fields))

\* an element as a bare value: an int, or the fields of a custom type
BareElement(x) == IF x[1] = "int" THEN to_bytes_le(x[2], 4) ELSE IntFields(x[3])

\* an element the way a field of its type is written: a custom type starts with
\* its own constructor id
FieldElement(x) ==
    IF x[1] = "int" THEN to_bytes_le(x[2], 4)
    ELSE to_bytes_le(ClassOf(x[2]).id, 4) \o IntFields(x[3])

RECURSIVE BareElements(_)
BareElements(xs) ==
    IF xs = <<>> THEN <<>> ELSE BareElement(Head(xs)) \o BareElements(Tail(xs))

RECURSIVE FieldElements(_)
FieldElements(xs) ==
    IF xs = <<>> THEN <<>> ELSE FieldElement(Head(xs)) \o FieldElements(Tail(xs))

\* an instance of a class whose only argument is a vector that is no flag
OneVector ==
    /\ Len(Cls.args) = 1
    /\ Cls.args[1].is_vector /\ ~Cls.args[1].is_flag

FramedVector(elements) ==
    to_bytes_le(Cls.id, 4)
        \o (IF Cls.args[1].use_vector_id THEN VECTOR_ID ELSE <<>>)
        \o to_bytes_le(Len(Self[1][2]), 4)
        \o elements

\* C4 (as claimed): a vector is written as the optional marker, the count and
\* every element as a bare value, without a constructor id per element even
\* when the elements are of a (boxed) custom type.
C4_BareElements ==
    (pc = "sent" /\ OneVector) => out[2] = FramedVector(BareElements(Self[1][2]))

\* C4 (amended): a vector is written as the optional marker, one 32-bit count
\* and then every element the way a field of the element type is written: a
\* primitive as its fixed encoding, a custom type through bytes(x), which
\* starts with the element's own constructor id.
C4_VectorFraming ==
    (pc = "sent" /\ OneVector) => out[2] = FramedVector(FieldElements(Self[1][2]))

C4_Witness ==
    /\ pc = "sent" /\ obj[2] = "peers"
    /\ Self[1] = PyList(<<PyObj("peerB", <<>>), PyObj("peerA", <<PyInt(1)>>)>>)

\* an instance whose first argument is of a bare custom type
BareFirst ==
    /\ Len(Cls.args) > 0
    /\ Cls.args[1].skip_constructor_id
    /\ ~Cls.args[1].is_vector /\ ~Cls.args[1].is_flag

\* C5 (as claimed): the bytes __bytes__ writes for an argument of a bare custom
\* type are exactly the bytes from_reader consumes for it, and it is read back
\* as written.
C5_BareSymmetric ==
    (pc = "sent" /\ BareFirst) =>
        LET written == write_to_bytes(Cls.args[1], Cls.args, Self, Self[1])
            body    == SubSeq(out[2], 5, Len(out[2]))
            got     == write_read_code(Cls.args[1], 0, body)
        IN  /\ IsOk(got)
            /\ Len(body) - Len(got[3]) = Len(written[2])
            /\ got[2] = Self[1]

\* C6 (as claimed): reading the bytes of a Vector<int> argument whose marker
\* was taken out never succeeds.
C6_MarkerRequired == pc = "misread" => ~IsOk(dec)

\* the bytes __bytes__ writes for the i-th declared argument
FieldBytes(i) == write_to_bytes(Cls.args[i], Cls.args, Self, Self[i])[2]

RECURSIVE DeclaredOffset(_)
\* where the i-th declared argument starts when the constructor id comes first
\* and the arguments follow in the order of the scheme
DeclaredOffset(i) ==
    IF i = 1 THEN 4 ELSE DeclaredOffset(i - 1) + Len(FieldBytes(i - 1))

\* the bytes sent from the start of the i-th declared argument on
StreamAt(i) == SubSeq(out[2], DeclaredOffset(i) + 1, Len(out[2]))

\* the flags the bytes sent hold at the indicator
FlagsSent ==
    IF HasIndicator(Cls.args)
    THEN from_bytes_le4(
             StreamAt(CHOOSE i \in 1..Len(Cls.args) : Cls.args[i].flag_indicator))
    ELSE 0

\* the statements from_reader holds for the i-th declared argument, run on the
\* bytes sent from the start of that argument on
ReadAt(i) == write_read_code(Cls.args[i], FlagsSent, StreamAt(i))

\* the arguments from_reader binds: no indicator, no generic definition
Bound(args) ==
    {i \in 1..Len(args) : ~args[i].flag_indicator /\ ~args[i].generic_definition}

InferredArgs(args) == {i \in 1..Len(args) : args[i].can_be_inferred}

\* C11 (as claimed): from_reader consumes no bytes for an argument that can be
\* inferred, and binds every other argument that is no indicator and no
\* generic definition.
C11_InferredNotRead ==
    (pc = "read" /\ InferredArgs(Cls.args) # {}) =>
        /\ IsOk(dec)
        /\ \A i \in InferredArgs(Cls.args) : ReadAt(i)[3] = StreamAt(i)
        /\ \A i \in Bound(Cls.args) \ InferredArgs(Cls.args) :
              dec[2][3][i] = ReadAt(i)[2]

\* C11 (amended): from_reader reads an argument that can be inferred like any
\* other argument: it consumes exactly the bytes __bytes__ wrote for it and
\* binds the value sent; every other argument that is no indicator and no
\* generic definition is bound to what was read for it.
C11_InferredRead ==
    (pc = "read" /\ InferredArgs(Cls.args) # {}) =>
        /\ IsOk(dec)
        /\ \A i \in InferredArgs(Cls.args) :
              /\ Len(StreamAt(i)) - Len(ReadAt(i)[3]) = Len(FieldBytes(i))
              /\ Len(FieldBytes(i)) > 0
              /\ dec[2][3][i] = Self[i]
        /\ \A i \in Bound(Cls.args) \ InferredArgs(Cls.args) :
              dec[2][3][i] = ReadAt(i)[2]

C11_Witness ==
    /\ pc = "read" /\ obj[2] = "send" /\ IsOk(dec)
    /\ Self[2] = PyInt(0 - 1) /\ dec[2][3][2] = PyInt(0 - 1)
    /\ Self[3] = PyInt(1) /\ Self[4] = PyInt(0)

\* no argument of the class is of a bare custom type
NoBareArg == \A i \in 1..Len(Cls.args) : ~Cls.args[i].skip_constructor_id

\* C15: the bytes of an instance are the constructor id as 4 bytes, little
\* endian, and then the bytes of each argument in the order the scheme
\* declares them; from_reader reads the arguments in that same order, each from
\* where the one declared before it ended, whatever the order of sorted_args
\* (which only orders the parameters of __init__ and the keywords of the call
\* that from_reader ends with).
C15_DeclarationOrder ==
    pc \in {"sent", "read"} =>
        /\ SubSeq(out[2], 1, 4) = to_bytes_le(Cls.id, 4)
        /\ \A i \in 1..Len(Cls.args) :
              SubSeq(out[2], DeclaredOffset(i) + 1, DeclaredOffset(i + 1))
                  = FieldBytes(i)
        /\ Len(out[2]) = DeclaredOffset(Len(Cls.args) + 1)
        /\ (pc = "read" /\ NoBareArg) =>
              /\ IsOk(dec)
              /\ dec[3] = <<>>
              /\ \A i \in Bound(Cls.args) :
                    /\ IsOk(ReadAt(i))
                    /\ dec[2][3][i] = ReadAt(i)[2]
                    /\ ReadAt(i)[3] = StreamAt(i + 1)

\* an instance whose declared order (flags, random_id, s, n) differs from the
\* order of sorted_args (flags, n, random_id, s), read back as it was written
C15_Witness ==
    /\ pc = "read"
    /\ obj = PyObj("send", <<None, PyInt(0 - 1), PyInt(1), PyInt(0)>>)
    /\ sorted_args(Cls.args) = <<1, 4, 2, 3>>
    /\ IsOk(dec) /\ dec[2] = obj

\* the flag arguments of the class that are vectors
FlagVectors(args) == {i \in FlagArgs(args) : args[i].is_vector}

\* C18 (as claimed): for a flag argument that is a vector and holds the empty
\* list, __bytes__ writes no bytes (no marker, no count), and the bytes of the
\* instance are those of the same instance with None in its place.
C18_EmptyVectorFlag ==
    pc = "sent" =>
        \A i \in FlagVectors(Cls.args) :
            Self[i] = PyList(<<>>) =>
                /\ FieldBytes(i) = <<>>
                /\ out = to_bytes(PyObj(obj[2], [Self EXCEPT ![i] = None]))

(***************************************************************************)
(* Codec runs on instances with a required argument left at None           *)
(***************************************************************************)
\* the arguments the caller has to give a value: no flag, not inferred
Required(args) ==
    {i \in 1..Len(args) :
        /\ ~args[i].is_flag /\ ~args[i].can_be_inferred
        /\ ~args[i].flag_indicator /\ ~args[i].generic_definition}

\* the instances with exactly one required argument at None
MissingInstances ==
    UNION {{PyObj(CodecScheme[k].name, [f EXCEPT ![i] = None]) :
                f \in FieldVals(CodecScheme[k].args, 1),
                i \in Required(CodecScheme[k].args)}
           : k \in 1..Len(CodecScheme)}

InitMissing ==
    /\ pc = "built"
    /\ obj \in MissingInstances
    /\ out = Idle
    /\ dec = Idle
    /\ type_ = <<>> /\ boxed = Idle
    /\ request = Idle /\ reader = <<>> /\ response = Idle
    /\ scheme = <<>> /\ disk = Idle
    /\ ip = 0 /\ parts = <<>> /\ entity = Idle /\ error = Idle
    /\ db = Idle /\ runs = 0

NextMissing == Serialize \/ Deserialize

SpecMissing == InitMissing /\ [][NextMissing]_vars

\* C13 (as claimed): __bytes__ of an instance with a required argument at None
\* raises; it never returns bytes.
C13_MissingRejected == pc # "built" => (pc = "raised" /\ ~IsOk(out))

(***************************************************************************)
(* TLGenerator._is_boxed                                                   *)
(***************************************************************************)
UpperLetters ==
    {"A", "B", "C", "D", "E", "F", "G", "H", "I", "J", "K", "L", "M",
     "N", "O", "P", "Q", "R", "S", "T", "U", "V", "W", "X", "Y", "Z"}

\* ch.isupper()
isupper(ch) == ch \in UpperLetters

\* s.find(ch): the 0-based index of the first ch in s, -1 when there is none
find(s, ch) ==
    IF \E i \in 1..Len(s) : s[i] = ch
    THEN (CHOOSE i \in 1..Len(s) : s[i] = ch /\ \A j \in 1..(i - 1) : s[j] # ch) - 1
    ELSE 0 - 1

Max(a, b) == IF a >= b THEN a ELSE b

\* check_after = max(type_.find('<'), type_.find('.'))
check_after(t) == Max(find(t, "<"), find(t, "."))

\* TLGenerator._is_boxed(type_): type_[check_after + 1].isupper(), an
\* IndexError when the string has no such character
_is_boxed(t) ==
    IF check_after(t) + 2 > Len(t) THEN Err("IndexError")
    ELSE PyBool(isupper(t[check_after(t) + 2]))

TypeChars == {"<", ">", ".", "T", "t"}

\* names separated by dots: ns.name
IsPath(t) ==
    /\ Len(t) > 0
    /\ \A i \in 1..Len(t) : t[i] \in {"T", "t", "."}
    /\ t[1] # "." /\ t[Len(t)] # "."
    /\ \A i \in 1..(Len(t) - 1) : t[i] = "." => t[i + 1] # "."

\* the type strings of a scheme: a path, or a path applied to one: Vector<ns.name>
IsType(t) ==
    \/ IsPath(t)
    \/ \E k \in 2..(Len(t) - 2) :
            /\ t[k] = "<" /\ t[Len(t)] = ">"
            /\ IsPath(SubSeq(t, 1, k - 1))
            /\ IsPath(SubSeq(t, k + 1, Len(t) - 1))

InitBoxed ==
    /\ pc = "type"
    /\ type_ \in {t \in SeqsUpTo(TypeChars, MaxType) : IsType(t)}
    /\ boxed = Idle
    /\ obj = Idle /\ out = Idle /\ dec = Idle
    /\ request = Idle /\ reader = <<>> /\ response = Idle
    /\ scheme = <<>> /\ disk = Idle
    /\ ip = 0 /\ parts = <<>> /\ entity = Idle /\ error = Idle
    /\ db = Idle /\ runs = 0

IsBoxed ==
    /\ pc = "type"
    /\ boxed' = _is_boxed(type_)
    /\ pc' = "classified"
    /\ UNCHANGED <<obj, out, dec, type_, request, reader, response, scheme, disk,
                 ip, parts, entity, error, db, runs>>

NextBoxed == IsBoxed

SpecBoxed == InitBoxed /\ [][NextBoxed]_vars

\* the 1-based position of the last '<' or '.' of t, 0 when it has neither
LastSeparator(t) ==
    IF \E i \in 1..Len(t) : t[i] \in {"<", "."}
    THEN CHOOSE i \in 1..Len(t) :
            t[i] \in {"<", "."} /\ \A j \in (i + 1)..Len(t) : t[j] \notin {"<", "."}
    ELSE 0

\* C7 (as claimed): _is_boxed is true exactly when the character right after
\* the last '<' or '.' of the type string (its first character when it has
\* neither) is uppercase.
C7_LastSeparator ==
    (pc = "classified" /\ LastSeparator(type_) < Len(type_))
        => boxed = PyBool(isupper(type_[LastSeparator(type_) + 1]))

(***************************************************************************)
(* The generated on_response of a request                                  *)
(***************************************************************************)
VectorOpen == <<"V", "e", "c", "t", "o", "r", "<">>
VectorInt == VectorOpen \o <<"i", "n", "t", ">">>
VectorLong == VectorOpen \o <<"l", "o", "n", "g", ">">>
VectorPeer == VectorOpen \o <<"P", "e", "e", "r", ">">>
VectorIpPort == VectorOpen \o <<"i", "p", "P", "o", "r", "t", ">">>

\* s.startswith(prefix)
startswith(s, prefix) ==
    Len(s) >= Len(prefix) /\ SubSeq(s, 1, Len(prefix)) = prefix

\* the number of turns of "for _ in range(count)" on the bytes s: none for a
\* negative count, more than s can serve for a count beyond 32 bits
range_count(count, s) ==
    IF count[1] = "int" THEN count[2]
    ELSE IF count[2] < 0 THEN 0 ELSE Len(s) + 1

RECURSIVE read_list(_, _, _, _)
\* [reader.read_int() for _ in range(n)], or read_long() for 8-byte values
read_list(long, n, acc, s) ==
    IF n <= 0 THEN Ok(PyList(acc), s)
    ELSE LET x == IF long THEN read_long(s) ELSE read_int(s)
         IN  IF ~IsOk(x) THEN x
             ELSE read_list(long, n - 1, Append(acc, x[2]), x[3])

Call(method) == <<"call", method>>

\* TLGenerator.write_request_result_code(builder, tlobject): the statements
\* written, run on the bytes s of the response
write_request_result_code(tlobject, s) ==
    IF startswith(tlobject.result, VectorOpen) THEN
        IF tlobject.result = VectorInt THEN
            LET id == read_int(s)
            IN  IF ~IsOk(id) THEN id
                ELSE LET count == read_int(id[3])
                     IN  IF ~IsOk(count) THEN count
                         ELSE read_list(FALSE, range_count(count[2], count[3]),
                                        <<>>, count[3])
        ELSE IF tlobject.result = VectorLong THEN
            LET id == read_int(s)
            IN  IF ~IsOk(id) THEN id
                ELSE LET count == read_long(id[3])
                     IN  IF ~IsOk(count) THEN count
                         ELSE read_list(TRUE, range_count(count[2], count[3]),
                                        <<>>, count[3])
        ELSE Call("tgread_vector")
    ELSE Call("tgread_object")

\* the on_response of the class of tlobject: the one written for a function
\* whose result is not boxed, TLObject's own otherwise
on_response(tlobject, s) ==
    IF tlobject.is_function /\ _is_boxed(tlobject.result) = PyBool(FALSE)
    THEN write_request_result_code(tlobject, s)
    ELSE Call("TLObject.on_response")

Requests ==
    { TLObject("getInts", 257, <<>>, VectorInt, TRUE),
      TLObject("getLongs", 258, <<>>, VectorLong, TRUE),
      TLObject("getPeers", 259, <<>>, VectorPeer, TRUE),
      TLObject("getPorts", 260, <<>>, VectorIpPort, TRUE),
      TLObject("getPeer", 261, <<>>, <<"P", "e", "e", "r">>, TRUE),
      TLObject("getPort", 262, <<>>, <<"i", "p", "P", "o", "r", "t">>, TRUE) }

RECURSIVE PackAll(_, _)
\* the values xs, each as width bytes
PackAll(xs, width) ==
    IF xs = <<>> THEN <<>>
    ELSE to_bytes_le(Head(xs), width) \o PackAll(Tail(xs), width)

\* a 32-bit count and that many values
CountPrefixed(xs, width) == to_bytes_le(Len(xs), 4) \o PackAll(xs, width)

\* what the server answers: a list of ints or longs, with or without the
\* vector marker in front of the count
Responses ==
    {(IF marker THEN VECTOR_ID ELSE <<>>) \o CountPrefixed(xs, width) :
        xs \in SeqsUpTo(IntVals, MaxLen), width \in {4, 8}, marker \in BOOLEAN}

InitResponse ==
    /\ pc = "invoked"
    /\ request \in Requests
    /\ reader \in Responses
    /\ response = Idle
    /\ obj = Idle /\ out = Idle /\ dec = Idle
    /\ type_ = <<>> /\ boxed = Idle
    /\ scheme = <<>> /\ disk = Idle
    /\ ip = 0 /\ parts = <<>> /\ entity = Idle /\ error = Idle
    /\ db = Idle /\ runs = 0

\* request.on_response(reader)
OnResponse ==
    /\ pc = "invoked"
    /\ response' = on_response(request, reader)
    /\ pc' = "answered"
    /\ UNCHANGED <<obj, out, dec, type_, boxed, request, reader, scheme, disk,
                 ip, parts, entity, error, db, runs>>

NextResponse == OnResponse

SpecResponse == InitResponse /\ [][NextResponse]_vars

PyInts(xs) == PyList([i \in 1..Len(xs) |-> PyInt(xs[i])])

\* C8 (as claimed): the on_response of a function returning Vector<int> or
\* Vector<long> consumes exactly a 32-bit count and that many 4-byte or 8-byte
\* values, no vector marker before the count; every other result is read as a
\* boxed vector or as one boxed object.
C8_PrimitiveVector ==
    pc = "answered" =>
        /\ request.result = VectorInt =>
              \A xs \in SeqsUpTo(IntVals, MaxLen) :
                  reader = CountPrefixed(xs, 4) => response = Ok(PyInts(xs), <<>>)
        /\ request.result = VectorLong =>
              \A xs \in SeqsUpTo(IntVals, MaxLen) :
                  reader = CountPrefixed(xs, 8) => response = Ok(PyInts(xs), <<>>)
        /\ request.result \notin {VectorInt, VectorLong} =>
              response \in {Call("tgread_vector"), Call("tgread_object"),
                            Call("TLObject.on_response")}

(***************************************************************************)
(* TLGenerator._write_source_code on one tlobject: the steps that can end   *)
(* the run and the steps that assign to the attributes of an argument       *)
(***************************************************************************)
MaxArgs == 3     \* most arguments of a tlobject given to _write_source_code

NoError == <<"none">>

\* the arguments __init__ takes: no flag indicator, no generic definition
real_args(args) ==
    SelectSeq(args, LAMBDA a : ~a.flag_indicator /\ ~a.generic_definition)

\* the body of "for arg in args" for one argument that can be inferred: what
\* it raises, NoError when it writes the assignment
infer_error(args, arg) ==
    IF arg.name = "random_id" THEN
        IF arg.is_vector THEN
            LET ids == SelectSeq(args, LAMBDA a : a.name = "id")
            IN  IF ids = <<>> THEN Err("StopIteration")
                ELSE IF ~ids[1].is_vector THEN Err("ValueError")
                ELSE NoError
        ELSE NoError
    ELSE Err("ValueError")

RECURSIVE init_error(_, _)
\* the loop that writes the assignments of __init__, from the i-th argument
\* on: the first exception raised, NoError when the loop ends
init_error(args, i) ==
    IF i > Len(args) THEN NoError
    ELSE IF ~args[i].can_be_inferred THEN init_error(args, i + 1)
    ELSE IF infer_error(args, args[i]) # NoError THEN infer_error(args, args[i])
    ELSE init_error(args, i + 1)

RECURSIVE write_to_bytes_arg(_), write_read_code_arg(_)

\* write_to_bytes with is_flag left cleared behind the elements of a vector
write_to_bytes_arg_flag_lost(arg) ==
    IF arg.generic_definition THEN arg
    ELSE IF arg.is_flag /\ arg.type = "true" THEN arg
    ELSE IF arg.is_vector THEN
        [write_to_bytes_arg([arg EXCEPT !.is_vector = FALSE, !.is_flag = FALSE])
            EXCEPT !.is_vector = TRUE]
    ELSE arg

\* the argument as write_to_bytes(builder, arg, args, name) leaves it: the
\* assignments to arg.is_vector and arg.is_flag around the recursive call
write_to_bytes_arg(arg) ==
    IF arg.generic_definition THEN arg
    ELSE IF arg.is_flag /\ arg.type = "true" THEN arg
    ELSE IF arg.is_vector THEN
        LET old_flag == arg.is_flag
            inner    == write_to_bytes_arg(
                            [arg EXCEPT !.is_vector = FALSE, !.is_flag = FALSE])
        IN  [inner EXCEPT !.is_vector = TRUE, !.is_flag = old_flag]
    ELSE arg

\* the argument as write_read_code(builder, arg, args, name) leaves it
write_read_code_arg(arg) ==
    IF arg.generic_definition THEN arg
    ELSE IF arg.is_flag /\ arg.type = "true" THEN arg
    ELSE LET was_flag == arg.is_flag
             unflagged == IF was_flag THEN [arg EXCEPT !.is_flag = FALSE] ELSE arg
             read == IF unflagged.is_vector
                     THEN [write_read_code_arg([unflagged EXCEPT !.is_vector = FALSE])
                              EXCEPT !.is_vector = TRUE]
                     ELSE unflagged
         IN  IF was_flag THEN [read EXCEPT !.is_flag = TRUE] ELSE read

GenericArg == [TLArg("X", "Type") EXCEPT !.generic_definition = TRUE]

\* the arguments the tlobjects under compilation are made of
ArgPool ==
    { FlagIndicator,
      GenericArg,
      TLArg("id", "int"),
      VectorOf(TLArg("id", "int"), TRUE),
      InferredArg("random_id", "long"),
      VectorOf(InferredArg("random_id", "long"), TRUE),
      VectorOf(InferredArg("seed", "long"), TRUE),
      FlagArg("t", "true", 1),
      VectorOf(FlagArg("x", "int", 0), TRUE) }

\* arguments with distinct names, every flag behind a flag indicator
IsArgs(args) ==
    /\ \A i, j \in 1..Len(args) : args[i].name = args[j].name => i = j
    /\ \A i \in 1..Len(args) :
          args[i].is_flag => \E j \in 1..(i - 1) : args[j].flag_indicator

CompileObjects ==
    {TLObject("f", 1, args, <<"T">>, TRUE) :
        args \in {a \in SeqsUpTo(ArgPool, MaxArgs) : IsArgs(a)}}

InitCompile ==
    /\ pc = "class"
    /\ entity \in CompileObjects
    /\ error = NoError
    /\ ip = 1
    /\ obj = Idle /\ out = Idle /\ dec = Idle
    /\ type_ = <<>> /\ boxed = Idle
    /\ request = Idle /\ reader = <<>> /\ response = Idle
    /\ scheme = <<>> /\ disk = Idle
    /\ parts = <<>> /\ db = Idle /\ runs = 0

\* the class header and __init__: the loop over the arguments may raise
WriteInit ==
    /\ pc = "class"
    /\ error' = init_error(real_args(entity.args), 1)
    /\ pc' = IF init_error(real_args(entity.args), 1) # NoError THEN "raised"
             ELSE IF entity.args = <<>> THEN "written"
             ELSE "bytes"
    /\ UNCHANGED <<obj, out, dec, type_, boxed, request, reader, response, scheme,
                   disk, ip, parts, entity, db, runs>>

\* one turn of "for arg in tlobject.args: write_to_bytes(builder, arg, ...)"
WriteToBytes ==
    /\ pc = "bytes"
    /\ entity' = [entity EXCEPT !.args[ip] = write_to_bytes_arg(entity.args[ip])]
    /\ ip' = IF ip = Len(entity.args) THEN 1 ELSE ip + 1
    /\ pc' = IF ip = Len(entity.args) THEN "reader" ELSE "bytes"
    /\ UNCHANGED <<obj, out, dec, type_, boxed, request, reader, response, scheme,
                   disk, parts, error, db, runs>>

\* one turn of "for arg in tlobject.args: write_read_code(builder, arg, ...)"
WriteReadCode ==
    /\ pc = "reader"
    /\ entity' = [entity EXCEPT !.args[ip] = write_read_code_arg(entity.args[ip])]
    /\ ip' = IF ip = Len(entity.args) THEN 1 ELSE ip + 1
    /\ pc' = IF ip = Len(entity.args) THEN "written" ELSE "reader"
    /\ UNCHANGED <<obj, out, dec, type_, boxed, request, reader, response, scheme,
                   disk, parts, error, db, runs>>

NextCompile == WriteInit \/ WriteToBytes \/ WriteReadCode

SpecCompile == InitCompile /\ [][NextCompile]_vars

\* the arguments of the entity that can be inferred and are vectors
InferredVectors ==
    {i \in 1..Len(entity.args) :
        entity.args[i].can_be_inferred /\ entity.args[i].is_vector}

\* the entity has a vector argument called 'id' to take the count from
HasReferenceVector ==
    \E i \in 1..Len(entity.args) :
        entity.args[i].name = "id" /\ entity.args[i].is_vector

\* C12 (as claimed): for an entity with an inferred vector argument, code
\* generation fails with the compile error (ValueError, "Cannot infer ...")
\* whenever the entity has no vector argument 'id', the entity without any
\* argument 'id' included, and goes on only when there is one.
C12_CannotInferField ==
    (pc # "class" /\ InferredVectors # {}) =>
        /\ ~HasReferenceVector => (pc = "raised" /\ error = Err("ValueError"))
        /\ pc # "raised" => HasReferenceVector

\* C17: every step of the compilation of an entity leaves is_vector and
\* is_flag of each of its arguments as they were, so the reader is written
\* from the arguments the encoder was written from.
C17_ArgsRestored ==
    [][\A i \in 1..Len(entity.args) :
          /\ entity'.args[i].is_vector = entity.args[i].is_vector
          /\ entity'.args[i].is_flag = entity.args[i].is_flag]_vars

C17_Witness ==
    /\ pc = "written"
    /\ Len(entity.args) = 3
    /\ entity.args[2].is_flag /\ entity.args[2].is_vector
    /\ entity.args[3].is_flag /\ entity.args[3].type = "true"

(***************************************************************************)
(* TLGenerator.generate_tlobjects and the files it writes                  *)
(***************************************************************************)
\* the names tlobjects and arguments take, in the order Python compares them
Alphabet ==
    <<"a", "b", "c", "d", "e", "f", "g", "h", "ipv4", "l", "n", "p", "port", "q",
      "random_id", "s", "v", "w", "x">>

NameRank(name) == CHOOSE i \in 1..Len(Alphabet) : Alphabet[i] = name

RECURSIVE insert_by_name(_, _)
insert_by_name(sorted, t) ==
    IF sorted = <<>> THEN <<t>>
    ELSE IF NameRank(sorted[Len(sorted)].name) <= NameRank(t.name)
        THEN Append(sorted, t)
        ELSE Append(insert_by_name(SubSeq(sorted, 1, Len(sorted) - 1), t),
                    sorted[Len(sorted)])

RECURSIVE sort_by_name(_)
\* tlobjects.sort(key=lambda x: x.name), a stable sort
sort_by_name(ts) ==
    IF ts = <<>> THEN <<>>
    ELSE insert_by_name(sort_by_name(SubSeq(ts, 1, Len(ts) - 1)), ts[Len(ts)])

Range(seq) == {seq[i] : i \in 1..Len(seq)}

\* namespace_functions / namespace_types: {namespace: [tlobjects]}, every list
\* in declaration order
namespace_tlobjects(tlobjs, functions) ==
    LET mine(t) == t.is_function = functions
    IN  [ns \in {t.namespace : t \in {u \in Range(tlobjs) : mine(u)}} |->
            SelectSeq(tlobjs, LAMBDA t : mine(t) /\ t.namespace = ns)]

\* type_constructors: {result: [constructors]}, in declaration order
type_constructors(tlobjs) ==
    [r \in {t.result : t \in {u \in Range(tlobjs) : ~u.is_function}} |->
        SelectSeq(tlobjs, LAMBDA t : ~t.is_function /\ t.result = r)]

\* d[key] of a defaultdict(list)
defaultdict_get(d, key) == IF key \in DOMAIN d THEN d[key] ELSE <<>>

\* s.rindex(ch): the 0-based index of the last ch in s
rindex(s, ch) ==
    (CHOOSE i \in 1..Len(s) : s[i] = ch /\ \A j \in (i + 1)..Len(s) : s[j] # ch) - 1

\* type_name = t.result; if '.' in type_name:
\*     type_name = type_name[type_name.rindex('.'):]
type_name_of(t) ==
    IF \E i \in 1..Len(t.result) : t.result[i] = "."
    THEN SubSeq(t.result, rindex(t.result, ".") + 1, Len(t.result))
    ELSE t.result

RECURSIVE type_defs(_, _, _, _)
\* the type definitions of one file: the loop over its sorted tlobjects, from
\* the i-th on, with the type names met so far
type_defs(ts, tc, i, type_names) ==
    IF i > Len(ts) THEN <<>>
    ELSE IF ts[i].is_function \/ type_name_of(ts[i]) \in type_names
        THEN type_defs(ts, tc, i + 1, type_names)
    ELSE LET type_name    == type_name_of(ts[i])
             constructors == defaultdict_get(tc, type_name)
             classes      == [k \in 1..Len(constructors) |-> constructors[k].name]
             rest         == type_defs(ts, tc, i + 1, type_names \cup {type_name})
         IN  IF constructors = <<>> THEN rest
             ELSE IF Len(constructors) = 1
                 THEN <<[name |-> type_name, kind |-> "alias", classes |-> classes]>>
                      \o rest
                 ELSE <<[name |-> type_name, kind |-> "Union", classes |-> classes]>>
                      \o rest

RECURSIVE namespaces(_, _, _)
\* the keys of namespace_functions / namespace_types in the order the loop
\* over the first i tlobjects inserted them
namespaces(tlobjs, functions, i) ==
    IF i = 0 THEN <<>>
    ELSE LET before == namespaces(tlobjs, functions, i - 1)
         IN  IF tlobjs[i].is_function = functions
                  /\ \A j \in 1..Len(before) : before[j] # tlobjs[i].namespace
             THEN Append(before, tlobjs[i].namespace)
             ELSE before

\* what _write_source_code raises on the tlobject t, NoError when it returns
source_error(t) == init_error(real_args(t.args), 1)

\* the first of the sorted tlobjects ts whose source code cannot be written,
\* 0 when there is none
first_error(ts) ==
    IF \E k \in 1..Len(ts) : source_error(ts[k]) # NoError
    THEN CHOOSE k \in 1..Len(ts) :
            /\ source_error(ts[k]) # NoError
            /\ \A j \in 1..(k - 1) : source_error(ts[j]) = NoError
    ELSE 0

\* the file of one namespace: the classes in name order and then the type
\* definitions; when a class raises, the file is left holding the classes
\* before it and the start of that class (cut), without type definitions
init_py(ts, tc) ==
    IF first_error(ts) = 0
    THEN [classes   |-> [k \in 1..Len(ts) |-> ts[k].name],
          cut       |-> "",
          type_defs |-> type_defs(ts, tc, 1, {})]
    ELSE [classes   |-> [k \in 1..(first_error(ts) - 1) |-> ts[k].name],
          cut       |-> ts[first_error(ts)].name,
          type_defs |-> <<>>]

RECURSIVE _write_init_py(_, _, _, _, _)
\* TLGenerator._write_init_py on a directory holding files: one file per
\* namespace, from the j-th namespace on; the files of the directory when the
\* loop ends or a class raises, and what was raised
_write_init_py(files, order, ns_tlobjects, tc, j) ==
    IF j > Len(order) THEN [files |-> files, error |-> NoError]
    ELSE LET ts      == sort_by_name(ns_tlobjects[order[j]])
             written == [ns \in DOMAIN files \cup {order[j]} |->
                            IF ns = order[j] THEN init_py(ts, tc) ELSE files[ns]]
         IN  IF first_error(ts) # 0
             THEN [files |-> written, error |-> source_error(ts[first_error(ts)])]
             ELSE _write_init_py(written, order, ns_tlobjects, tc, j + 1)

\* the lines of the dictionary written to all_tlobjects.py, one per tlobject
\* in declaration order: constructor id, then the path of the class
all_tlobjects(tlobjs) ==
    [k \in 1..Len(tlobjs) |->
        [id |-> tlobjs[k].id,
         module |-> IF tlobjs[k].is_function THEN "functions" ELSE "types",
         namespace |-> tlobjs[k].namespace,
         class |-> tlobjs[k].name]]

NoFile == <<"absent">>
File(content) == <<"file", content>>

EmptyDisk ==
    [functions |-> NoFile, types |-> NoFile, all_tlobjects |-> NoFile]

\* os.makedirs(dir, exist_ok=True): the files the directory holds afterwards
makedirs(dir) == IF dir = NoFile THEN <<>> ELSE dir[2]

\* generate_tlobjects(scheme_file, import_depth) on the output directory d: the
\* directory afterwards and what the call raised.  The functions are written
\* first, then the types, then all_tlobjects.py; an exception ends the call
\* where it is raised and nothing written is taken back.
generate_tlobjects(d, tlobjs) ==
    LET tc == type_constructors(tlobjs)
        f  == _write_init_py(makedirs(d.functions),
                             namespaces(tlobjs, TRUE, Len(tlobjs)),
                             namespace_tlobjects(tlobjs, TRUE), tc, 1)
        t  == _write_init_py(makedirs(d.types),
                             namespaces(tlobjs, FALSE, Len(tlobjs)),
                             namespace_tlobjects(tlobjs, FALSE), tc, 1)
    IN  IF f.error # NoError
        THEN [disk  |-> [functions |-> File(f.files),
                         types |-> File(makedirs(d.types)),
                         all_tlobjects |-> d.all_tlobjects],
              error |-> f.error]
        ELSE IF t.error # NoError
        THEN [disk  |-> [functions |-> File(f.files),
                         types |-> File(t.files),
                         all_tlobjects |-> d.all_tlobjects],
              error |-> t.error]
        ELSE [disk  |-> [functions |-> File(f.files),
                         types |-> File(t.files),
                         all_tlobjects |-> File(all_tlobjects(tlobjs))],
              error |-> NoError]

\* the output directory after clean_tlobjects()
clean_tlobjects(d) == EmptyDisk

\* tlobjects_exist()
tlobjects_exist(d) == d.all_tlobjects # NoFile

Names == {Alphabet[i] : i \in 1..MaxObjects}

TypeT == <<"T">>
TypeNsT == <<"n", ".", "T">>

\* a tlobject of the scheme: ns.name#id = ns.Type
SchemeObjects ==
    {[TLObject(name, id, <<>>, result, fn)
        EXCEPT !.namespace = IF result = TypeNsT THEN "n" ELSE ""] :
        name \in Names, id \in {1, 2}, result \in {TypeT, TypeNsT}, fn \in BOOLEAN}

\* the schemes handed to the generator: tlobjects with distinct names
Schemes ==
    {sch \in SeqsUpTo(SchemeObjects, MaxObjects) :
        \A i, j \in 1..Len(sch) : sch[i].name = sch[j].name => i = j}

InitGenerator ==
    /\ pc = "parsed"
    /\ scheme \in Schemes
    /\ disk = EmptyDisk
    /\ obj = Idle /\ out = Idle /\ dec = Idle
    /\ type_ = <<>> /\ boxed = Idle
    /\ request = Idle /\ reader = <<>> /\ response = Idle
    /\ ip = 0 /\ parts = <<>> /\ entity = Idle /\ error = NoError
    /\ db = Idle /\ runs = 0

GenerateTLObjects ==
    /\ pc = "parsed"
    /\ disk' = generate_tlobjects(disk, scheme).disk
    /\ error' = generate_tlobjects(disk, scheme).error
    /\ pc' = IF generate_tlobjects(disk, scheme).error = NoError
             THEN "generated" ELSE "aborted"
    /\ UNCHANGED <<obj, out, dec, type_, boxed, request, reader, response, scheme,
                 ip, parts, entity, db, runs>>

CleanTLObjects ==
    /\ pc = "generated"
    /\ disk' = clean_tlobjects(disk)
    /\ pc' = "cleaned"
    /\ UNCHANGED <<obj, out, dec, type_, boxed, request, reader, response, scheme,
                 ip, parts, entity, error, db, runs>>

NextGenerator == GenerateTLObjects \/ CleanTLObjects

SpecGenerator == InitGenerator /\ [][NextGenerator]_vars

\* C9 (as claimed): when two tlobjects of the scheme share a constructor id,
\* generation fails instead of writing a registry in which one replaces the
\* other.
C9_UniqueIds ==
    (pc = "generated"
        /\ \E i, j \in 1..Len(scheme) : i # j /\ scheme[i].id = scheme[j].id)
        => ~tlobjects_exist(disk)

\* the part of a type string behind its last '.'
BaseName(r) == SubSeq(r, LastSeparator(r) + 1, Len(r))

\* the constructors of the result type r, in declaration order
ConstructorsOf(r) ==
    LET cs == SelectSeq(scheme, LAMBDA t : ~t.is_function /\ t.result = r)
    IN  [k \in 1..Len(cs) |-> cs[k].name]

\* C10 (as claimed): every result type with N > 1 constructors, namespaced or
\* not, gets a type definition listing exactly those constructors in
\* declaration order; one with a single constructor gets a plain alias.
C10_UnionTypes ==
    pc = "generated" =>
        \A r \in {t.result : t \in {u \in Range(scheme) : ~u.is_function}} :
            \E ns \in DOMAIN disk.types[2] :
                \E k \in 1..Len(disk.types[2][ns].type_defs) :
                    LET d == disk.types[2][ns].type_defs[k]
                    IN  /\ d.name = BaseName(r)
                        /\ d.classes = ConstructorsOf(r)
                        /\ d.kind = IF Len(ConstructorsOf(r)) > 1
                                    THEN "Union" ELSE "alias"

(***************************************************************************)
(* Calls of generate_tlobjects and clean_tlobjects, one after another, on   *)
(* one output directory; a scheme may hold a tlobject that cannot be        *)
(* written                                                                   *)
(***************************************************************************)
MaxRuns == 2         \* most generate_tlobjects calls on the directory
MaxRunObjects == 2   \* most tlobjects in a scheme of these calls

RunNames == {Alphabet[i] : i \in 1..MaxRunObjects}

\* id:int random_id:Vector<long>: the length of random_id cannot be inferred
UninferrableArgs ==
    <<TLArg("id", "int"), VectorOf(InferredArg("random_id", "long"), TRUE)>>

\* a tlobject of these schemes: ns.name#id args = ns.T
RunObjects ==
    {[TLObject(name, NameRank(name), args, result, fn)
        EXCEPT !.namespace = IF result = TypeNsT THEN "n" ELSE ""] :
        name \in RunNames, args \in {<<>>, UninferrableArgs},
        result \in {TypeT, TypeNsT}, fn \in BOOLEAN}

\* the schemes of these calls: at least one tlobject, distinct names
RunSchemes ==
    {sch \in SeqsUpTo(RunObjects, MaxRunObjects) :
        /\ sch # <<>>
        /\ \A i, j \in 1..Len(sch) : sch[i].name = sch[j].name => i = j}

InitRuns ==
    /\ pc = "idle"
    /\ scheme = <<>>
    /\ disk = EmptyDisk
    /\ error = NoError
    /\ runs = 0
    /\ obj = Idle /\ out = Idle /\ dec = Idle
    /\ type_ = <<>> /\ boxed = Idle
    /\ request = Idle /\ reader = <<>> /\ response = Idle
    /\ ip = 0 /\ parts = <<>> /\ entity = Idle /\ db = Idle

\* generate_tlobjects on whatever the directory holds
Generate ==
    /\ runs < MaxRuns
    /\ \E sch \in RunSchemes :
          /\ scheme' = sch
          /\ disk' = generate_tlobjects(disk, sch).disk
          /\ error' = generate_tlobjects(disk, sch).error
          /\ pc' = IF generate_tlobjects(disk, sch).error = NoError
                   THEN "generated" ELSE "aborted"
    /\ runs' = runs + 1
    /\ UNCHANGED <<obj, out, dec, type_, boxed, request, reader, response,
                   ip, parts, entity, db>>

\* clean_tlobjects on whatever the directory holds
Clean ==
    /\ pc # "cleaned"
    /\ disk' = clean_tlobjects(disk)
    /\ error' = NoError
    /\ pc' = "cleaned"
    /\ UNCHANGED <<obj, out, dec, type_, boxed, request, reader, response, scheme,
                   ip, parts, entity, db, runs>>

NextRuns == Generate \/ Clean

SpecRuns == InitRuns /\ [][NextRuns]_vars

\* the modules a directory of the output directory holds
Modules(dir) == IF dir = NoFile THEN {} ELSE {dir[2][ns] : ns \in DOMAIN dir[2]}

\* C14 (as claimed): when generate_tlobjects aborts on a tlobject that cannot
\* be written, no functions or types module written by that call is left: none
\* is cut short, and after a call on an empty directory there is none at all.
C14_NoPartialOutput ==
    pc = "aborted" =>
        /\ \A m \in Modules(disk.functions) \cup Modules(disk.types) : m.cut = ""
        /\ runs = 1 => Modules(disk.functions) \cup Modules(disk.types) = {}

\* C19 (as claimed): whenever tlobjects_exist() is true, the directory holds
\* what one generate_tlobjects call that ran to its end wrote, and nothing else.
C19_CompleteGeneration ==
    tlobjects_exist(disk) =>
        \E sch \in RunSchemes :
            generate_tlobjects(EmptyDisk, sch) = [disk |-> disk, error |-> NoError]

(***************************************************************************)
(* The generated __bytes__, statement by statement: the assertions written  *)
(* for the flag groups, then the items of the tuple given to b''.join       *)
(***************************************************************************)
RECURSIVE first_seen(_, _)
\* the keys of repeated_args in the order the loop over tlobject.args first
\* meets them (a dict keeps insertion order)
first_seen(args, i) ==
    IF i = 0 THEN <<>>
    ELSE LET before == first_seen(args, i - 1)
         IN  IF args[i].is_flag
                  /\ \A j \in 1..Len(before) : before[j] # args[i].flag_index
             THEN Append(before, args[i].flag_index)
             ELSE before

\* the flag indexes more than one argument shares: for ra in
\* repeated_args.values(): if len(ra) > 1
repeated_args(args) ==
    SelectSeq(first_seen(args, Len(args)),
              LAMBDA k : Cardinality({i \in 1..Len(args) :
                                        args[i].is_flag /\ args[i].flag_index = k}) > 1)

\* the arguments write_to_bytes writes an item for (it returns True)
written_args(args) ==
    SelectSeq([i \in 1..Len(args) |-> i],
              LAMBDA i : ~args[i].generic_definition
                         /\ ~(args[i].is_flag /\ args[i].type = "true"))

AssertStatements(args) ==
    [j \in 1..Len(repeated_args(args)) |->
        [op |-> "assert", at |-> repeated_args(args)[j]]]

ItemStatements(args) ==
    <<[op |-> "id", at |-> 0]>>
        \o [j \in 1..Len(written_args(args)) |->
                [op |-> "item", at |-> written_args(args)[j]]]

\* __bytes__ with the assertions written behind the items
bytes_statements_items_first(tlobject) ==
    ItemStatements(tlobject.args) \o AssertStatements(tlobject.args)
        \o <<[op |-> "join", at |-> 0]>>

\* the statements _write_source_code writes into __bytes__, in the order it
\* writes them: the assertions, then "return b''.join((" with the constructor
\* id and one item for each argument written, then "))"
bytes_statements(tlobject) ==
    AssertStatements(tlobject.args) \o ItemStatements(tlobject.args)
        \o <<[op |-> "join", at |-> 0]>>

\* assert (all (x or x is not None)) or (all (x is None or x is False)) for the
\* arguments of flag index k
assertion(args, self, k) ==
    LET ra == {i \in 1..Len(args) : args[i].is_flag /\ args[i].flag_index = k}
    IN  \/ \A i \in ra : Truthy(self[i]) \/ self[i] # None
        \/ \A i \in ra : IsNoneOrFalse(self[i])

RECURSIVE join(_)
\* b''.join(parts)
join(ps) == IF ps = <<>> THEN <<>> ELSE Head(ps) \o join(Tail(ps))

Statement == bytes_statements(Cls)[ip]

InitBytes ==
    /\ pc = "called"
    /\ obj \in Instances
    /\ ip = 1
    /\ parts = <<>>
    /\ out = Idle
    /\ dec = Idle
    /\ type_ = <<>> /\ boxed = Idle
    /\ request = Idle /\ reader = <<>> /\ response = Idle
    /\ scheme = <<>> /\ disk = Idle
    /\ entity = Idle /\ error = Idle /\ db = Idle /\ runs = 0

\* an assert statement: the call goes on when it holds, raises when not
CheckFlagGroup ==
    /\ pc = "called"
    /\ Statement.op = "assert"
    /\ IF assertion(Cls.args, Self, Statement.at)
       THEN /\ ip' = ip + 1
            /\ UNCHANGED <<pc, out>>
       ELSE /\ pc' = "raised"
            /\ out' = Err("AssertionError")
            /\ UNCHANGED ip
    /\ UNCHANGED <<obj, dec, type_, boxed, request, reader, response, scheme, disk,
                   parts, entity, error, db, runs>>

\* the next item of the tuple is evaluated: the constructor id, or the
\* expression write_to_bytes wrote for an argument, which may raise
WriteItem ==
    /\ pc = "called"
    /\ Statement.op \in {"id", "item"}
    /\ LET item == IF Statement.op = "id" THEN Bytes(to_bytes_le(Cls.id, 4))
                   ELSE write_to_bytes(Cls.args[Statement.at], Cls.args, Self,
                                       Self[Statement.at])
       IN  IF IsOk(item)
           THEN /\ parts' = Append(parts, item[2])
                /\ ip' = ip + 1
                /\ UNCHANGED <<pc, out>>
           ELSE /\ pc' = "raised"
                /\ out' = item
                /\ UNCHANGED <<ip, parts>>
    /\ UNCHANGED <<obj, dec, type_, boxed, request, reader, response, scheme, disk,
                   entity, error, db, runs>>

\* return b''.join((...))
Join ==
    /\ pc = "called"
    /\ Statement.op = "join"
    /\ out' = Bytes(join(parts))
    /\ pc' = "returned"
    /\ UNCHANGED <<obj, dec, type_, boxed, request, reader, response, scheme, disk,
                   ip, parts, entity, error, db, runs>>

NextBytes == CheckFlagGroup \/ WriteItem \/ Join

SpecBytes == InitBytes /\ [][NextBytes]_vars

\* the call has gone past every assertion the class has
ChecksDone ==
    \A j \in 1..Len(bytes_statements(Cls)) :
        bytes_statements(Cls)[j].op = "assert" => j < ip

\* C16: whenever an item of the entity has been produced, its constructor id
\* included, or its bytes returned, the assertion of every flag group of the
\* entity has been evaluated and held; a call that fails an assertion ends with
\* no item produced.
C16_CheckBeforeBytes ==
    /\ (parts # <<>> \/ pc = "returned") =>
          /\ ChecksDone
          /\ \A j \in 1..Len(repeated_args(Cls.args)) :
                assertion(Cls.args, Self, repeated_args(Cls.args)[j])
    /\ (pc = "raised" /\ out = Err("AssertionError")) => parts = <<>>
    /\ ~flag_assertion(Cls.args, Self) => (parts = <<>> /\ pc # "returned")

C16_Witness ==
    /\ pc = "raised" /\ out = Err("AssertionError") /\ parts = <<>>
    /\ obj[2] = "msg" /\ Self[4] = PyBool(TRUE) /\ Self[5] = None

\* the statements run one by one return what bytes(obj) returns
BytesAgree == pc \in {"returned", "raised"} => out = to_bytes(obj)

(***************************************************************************)
(* db/database.py: one table per tlobject, one row per object stored        *)
(***************************************************************************)
\* type.lower() on the types of the scheme
lower(type) ==
    CASE type = "Bool"   -> "bool"
      [] type = "Peer"   -> "peer"
      [] type = "ipPort" -> "ipport"
      [] OTHER           -> type

\* Database.get_sql_type(tlarg)
get_sql_type(tlarg) ==
    IF tlarg.is_vector THEN "blob"
    ELSE IF lower(tlarg.type) \in {"true", "bool", "int", "long", "int128", "int256"}
        THEN "integer"
    ELSE IF lower(tlarg.type) \in {"double", "float"} THEN "real"
    ELSE IF lower(tlarg.type) \in {"string"} THEN "text"
    ELSE IF lower(tlarg.type) \in {"bytes"} THEN "blob"
    ELSE "tl"

\* tlobject.get_real_args(): no flag indicator, no generic definition
get_real_args(tlobject) == real_args(tlobject.args)

\* sorted(tlobject.get_real_args(), key=lambda a: a.name)
sorted_by_name(tlobject) == sort_by_name(get_real_args(tlobject))

Column(name, type) == [name |-> name, type |-> type]

\* one column for every argument
columns_one_each(arg) ==
    IF get_sql_type(arg) = "tl"
    THEN <<Column(<<"tl", arg.name, "ref_id">>, "integer")>>
    ELSE <<Column(<<"tl", arg.name>>, get_sql_type(arg))>>

\* the columns get_sql_columns appends for one argument: tl_<name>_ref_id and
\* tl_<name>_constructor_id for another TLObject, tl_<name> otherwise
columns_of(arg) ==
    IF get_sql_type(arg) = "tl"
    THEN << Column(<<"tl", arg.name, "ref_id">>, "integer"),
            Column(<<"tl", arg.name, "constructor_id">>, "integer") >>
    ELSE <<Column(<<"tl", arg.name>>, get_sql_type(arg))>>

RECURSIVE columns_from(_)
columns_from(args) ==
    IF args = <<>> THEN <<>> ELSE columns_of(Head(args)) \o columns_from(Tail(args))

\* Database.get_sql_columns(tlobject)
get_sql_columns(tlobject) == columns_from(sorted_by_name(tlobject))

\* Database.get_sql_table_name(tlobject): '{}_{}'.format(name, hex(id)[2:])
get_sql_table_name(tlobject) == <<tlobject.name, tlobject.id>>

\* Database.create_db(tlobjects): create table <name> (unique_id integer
\* primary key, <columns>) for every tlobject
create_db(tlobjs) ==
    [t \in {get_sql_table_name(tlobjs[i]) : i \in 1..Len(tlobjs)} |->
        LET tlobject == tlobjs[CHOOSE i \in 1..Len(tlobjs) :
                                   get_sql_table_name(tlobjs[i]) = t]
        IN  [columns |-> <<Column(<<"unique_id">>, "integer")>>
                            \o get_sql_columns(tlobject),
             rows    |-> {}]]

\* object.get_unique_id(): an identifier made from the attributes of the object
get_unique_id(o) == <<"uid", o>>

\* getattr(object, name)
getattr(o, name) ==
    o[3][CHOOSE i \in 1..Len(ClassOf(o[2]).args) : ClassOf(o[2]).args[i].name = name]

\* what the loop of insert_or_replace_object appends to values for one argument
values_of(o, arg) ==
    LET value == getattr(o, arg.name)
    IN  IF get_sql_type(arg) = "tl" THEN
            IF ~Truthy(value) THEN <<None, None>>
            ELSE <<get_unique_id(value), PyInt(ClassOf(value[2]).id)>>
        ELSE IF value[1] = "list" THEN <<<<"pickle", value>>>>
        ELSE <<value>>

RECURSIVE values_from(_, _)
values_from(o, args) ==
    IF args = <<>> THEN <<>>
    ELSE values_of(o, Head(args)) \o values_from(o, Tail(args))

\* cursor.execute('insert or replace into <table> values (?,...)', values): an
\* error when the table has another number of columns, else the row with this
\* unique_id replaced
execute_insert(tables, name, values) ==
    IF name \notin DOMAIN tables THEN [tables |-> tables, error |-> Err("OperationalError")]
    ELSE IF Len(values) # Len(tables[name].columns)
        THEN [tables |-> tables, error |-> Err("OperationalError")]
    ELSE [tables |-> [tables EXCEPT ![name].rows =
                          {r \in @ : r[1] # values[1]} \cup {values}],
          error  |-> NoError]

RECURSIVE insert_or_replace_object(_, _), insert_children(_, _, _)

\* the objects the loop inserts into their own tables, for the arguments args
insert_children(tables, o, args) ==
    IF args = <<>> THEN [tables |-> tables, error |-> NoError]
    ELSE LET value == getattr(o, Head(args).name)
         IN  IF get_sql_type(Head(args)) = "tl" /\ Truthy(value)
             THEN LET child == insert_or_replace_object(tables, value)
                  IN  IF child.error # NoError THEN child
                      ELSE insert_children(child.tables, o, Tail(args))
             ELSE insert_children(tables, o, Tail(args))

\* Database.insert_or_replace_object(object)
insert_or_replace_object(tables, o) ==
    LET tlobject == ClassOf(o[2])
        args     == sorted_by_name(tlobject)
        values   == <<get_unique_id(o)>> \o values_from(o, args)
        children == insert_children(tables, o, args)
    IN  IF children.error # NoError THEN children
        ELSE execute_insert(children.tables, get_sql_table_name(tlobject), values)

InitDatabase ==
    /\ pc = "connected"
    /\ obj \in Instances
    /\ db = <<>>
    /\ error = NoError
    /\ out = Idle /\ dec = Idle
    /\ type_ = <<>> /\ boxed = Idle
    /\ request = Idle /\ reader = <<>> /\ response = Idle
    /\ scheme = <<>> /\ disk = Idle
    /\ ip = 0 /\ parts = <<>> /\ entity = Idle /\ runs = 0

CreateDb ==
    /\ pc = "connected"
    /\ db' = create_db(CodecScheme)
    /\ pc' = "created"
    /\ UNCHANGED <<obj, out, dec, type_, boxed, request, reader, response, scheme,
                   disk, ip, parts, entity, error, runs>>

InsertOrReplaceObject ==
    /\ pc = "created"
    /\ db' = insert_or_replace_object(db, obj).tables
    /\ error' = insert_or_replace_object(db, obj).error
    /\ pc' = IF insert_or_replace_object(db, obj).error = NoError
             THEN "inserted" ELSE "failed"
    /\ UNCHANGED <<obj, out, dec, type_, boxed, request, reader, response, scheme,
                   disk, ip, parts, entity, runs>>

NextDatabase == CreateDb \/ InsertOrReplaceObject

SpecDatabase == InitDatabase /\ [][NextDatabase]_vars

\* the table of the object o and the row stored for it
TableOf(o) == db[get_sql_table_name(ClassOf(o[2]))]

Stored(o) == {r \in TableOf(o).rows : r[1] = get_unique_id(o)}

\* the position of the column called name in the table of o, 0 when it has none
ColumnAt(o, name) ==
    IF \E k \in 1..Len(TableOf(o).columns) : TableOf(o).columns[k].name = name
    THEN CHOOSE k \in 1..Len(TableOf(o).columns) : TableOf(o).columns[k].name = name
    ELSE 0

\* the arguments stored by reference: another TLObject, no vector
RefArgs(o) ==
    {a \in Range(get_real_args(ClassOf(o[2]))) :
        ~a.is_vector
        /\ a.type \notin {"int", "long", "Bool", "true"}}

\* the column names follow the names of the arguments in Python's order
ColumnsSorted(o) ==
    \A j, k \in 1..Len(TableOf(o).columns) :
        (1 < j /\ j < k) =>
            NameRank(TableOf(o).columns[j].name[2])
                <= NameRank(TableOf(o).columns[k].name[2])

\* C20: storing an object never fails on the number of values; the row stored
\* has one value per column of the table create_db made, unique_id first and
\* the columns in the order of the argument names; an argument of another
\* TLObject type that is no vector fills two columns, with the unique id and
\* the constructor id of the child, which is stored in its own table, or with
\* two NULLs when it is unset; every other argument fills one column.
C20_ArityMatches ==
    (pc \in {"inserted", "failed"}) =>
        /\ pc = "inserted"
        /\ \E row \in Stored(obj) :
              /\ Stored(obj) = {row}
              /\ Len(row) = Len(TableOf(obj).columns)
              /\ TableOf(obj).columns[1].name = <<"unique_id">>
              /\ ColumnsSorted(obj)
              /\ Len(row) = 1 + 2 * Cardinality(RefArgs(obj))
                              + Cardinality(Range(get_real_args(Cls)) \ RefArgs(obj))
              /\ \A a \in RefArgs(obj) :
                    LET ref   == ColumnAt(obj, <<"tl", a.name, "ref_id">>)
                        ctor  == ColumnAt(obj, <<"tl", a.name, "constructor_id">>)
                        value == getattr(obj, a.name)
                    IN  /\ ref > 1 /\ ctor = ref + 1
                        /\ IF value = None
                           THEN row[ref] = None /\ row[ctor] = None
                           ELSE /\ row[ref] = get_unique_id(value)
                                /\ row[ctor] = PyInt(ClassOf(value[2]).id)
                                /\ Stored(value) # {}
              /\ \A a \in Range(get_real_args(Cls)) \ RefArgs(obj) :
                    LET col   == ColumnAt(obj, <<"tl", a.name>>)
                        value == getattr(obj, a.name)
                    IN  /\ col > 1
                        /\ row[col] = IF value[1] = "list"
                                      THEN <<"pickle", value>> ELSE value

\* holder(q=ipPort(1, 0), n=-1) stored as (unique_id, n, q_ref_id,
\* q_constructor_id), and its ipPort in the table of ipPort
C20_Witness ==
    /\ pc = "inserted"
    /\ obj = PyObj("holder", <<PyObj("ipPort", <<PyInt(1), PyInt(0)>>), PyInt(0 - 1)>>)
    /\ Stored(obj) = {<< get_unique_id(obj), PyInt(0 - 1),
                         get_unique_id(obj[3][1]), PyInt(195) >>}
    /\ Stored(obj[3][1]) # {}

====
